---- MODULE Spec2Model ----
(***************************************************************************)
(* Olik-NG: the shim that adapts the olik state library to Angular/RxJS.   *)
(*                                                                         *)
(* Two packagings of the shim are in the source and both are modelled;     *)
(* the variable `variant` says which one a behaviour runs:                 *)
(*   "module"  - projects/olik-ng/src/lib/olik-ng.module.ts                *)
(*   "unnamed" - unnamed/part_000 (part_001 has the same augmentCore)      *)
(*                                                                         *)
(* The olik core (stores, futures, change listeners) and RxJS (Observable, *)
(* from, combineLatest, map) are libraries the shim calls.  They appear    *)
(* here only as far as the shim's calls need them: a store of two paths,   *)
(* one future updating the path "property", promise reactions that run in  *)
(* a later step than the settlement, and subscribers that ignore every     *)
(* signal once they are closed.                                            *)
(***************************************************************************)
EXTENDS Integers, Sequences, FiniteSets, TLC

\* ------------------------------------------------------------------ bounds
\* Number of subscriptions made to one future's status stream.
MaxStatusSubs == 2
\* Number of subscriptions made to one future's value-only stream.
MaxValueSubs == 1
\* Number of subscriptions made to observe() streams.
MaxObserveSubs == 2
\* Number of store mutations in one behaviour.
MaxMutations == 2

FSubs == 1..MaxStatusSubs
VSubs == 1..MaxValueSubs
OSubs == 1..MaxObserveSubs
\* Number of subscriptions made to one combined stream.
MaxCombinedSubs == 1
\* Number of emissions of the component's streams after construction.
MaxEmits == 2
CSubs == 1..MaxCombinedSubs
\* Number of store creations / module constructions in one process.
MaxInits == 5
\* Number of emissions of the stream a producer handed to the async bridge.
MaxStreamEmits == 3
\* Number of store changes while a component is combined twice.
MaxRecombineEmits == 2
\* Number of subscriptions made to the combined stream of a component that
\* has no qualifying field.
MaxEmptySubs == 2
ESubs == 1..MaxEmptySubs
\* Number of emissions of a component's streams after synchronizeObservables.
MaxSyncEmits == 2
\* Number of assignments to the component's fields after the combiner's call.
MaxFieldChanges == 1

\* ------------------------------------------------------------------ values
Variants == {"module", "unnamed"}
\* Values a store path can hold and a fetch can resolve with.
Values == {"a", "b", "c"}
\* Reasons a fetch can reject with.
Reasons == {"test", "boom"}
\* error field of a FutureState that carries no error (null).
NoError == "null"
Paths == {"property", "string"}
\* The store's state at creation.
InitialState == [property |-> "a", string |-> "b"]

VARIABLES
    variant,      \* which packaging of the shim runs
    store,        \* the olik store: path -> value
    preUpdate,    \* history: the value of "property" when the update was started
    future,       \* the olik Future of the asynchronous update
    \* --- status stream (asObservableFuture), one entry per subscription
    fPhase,       \* "idle" | "active" | "unsubscribed" | "completed"
    running,      \* the closure variable `running` of the subscription
    fReaction,    \* "none" | "queued" | "done": the then/catch reaction
    fReceived,    \* snapshots handed to the subscriber's next callback
    fPushed,      \* history: number of observer.next calls the shim made
    fCompleted,   \* the subscriber's complete callback ran
    fInitial,     \* history: the FutureState at the moment of subscription
    fEarlyUnsub,  \* history: unsubscribed while the future was still pending
    \* --- value-only stream (asObservable), one entry per subscription
    vPhase,       \* "idle" | "active" | "unsubscribed" | "completed" | "errored"
    vReaction,    \* "none" | "queued" | "done"
    vReceived,    \* values handed to the subscriber's next callback
    vError,       \* reason handed to the subscriber's error callback, or NoError
    \* --- observe() streams of selections and of the derivation, per subscription
    oPhase,       \* "idle" | "active" | "unsubscribed"
    oTarget,      \* what is observed: a path of the store, or "derivation"
    oListening,   \* the onChange listener of the subscription is registered
    oReceived,    \* values handed to the subscriber's next callback
    oExpected,    \* history: value at subscription, then each mutation's value
    mutations,    \* history: number of store mutations so far
    \* --- combineComponentObservables on one component
    component,    \* field name -> kind of the value the field holds
    source,       \* field name -> current value of the selection behind an observe() field
    keysOfObservableMembers,  \* the keys the call selected, in enumeration order
    cValue,       \* res.value: <<>> while unset, else <<snapshot>>
    cDollar,      \* component.$observables: <<>> while unset, else <<snapshot>>
    cPhase,       \* per subscription: "idle" | "active" | "unsubscribed" | "completed"
    cOrder,       \* the active subscriptions, in the order they subscribed
    cLatest,      \* per subscription: combineLatest's latest value per key index
    cReceived,    \* per subscription: the items handed to its next callback
    hLast,        \* history, per subscription: field -> last value its stream emitted to it
    cExpected,    \* history, per subscription: the snapshots it is due
    emits,        \* history: number of emissions after construction
    lastKey,      \* history: the field whose stream emitted last ("" before any)
    failed,       \* field name -> the reason its Subject errored with, or NoError
    cError,       \* per subscription: the reason handed to its error callback, or NoError
    heap,         \* the objects map's function created, in order of creation
    coreHasBeenAgmented, \* the module-level registration flag
    augmentCalls, \* number of calls made to the state library's augment
    devtoolsListeners, \* number of listeners given to listenToDevtoolsDispatch
    inits,        \* history: the initializations run, with their outcome
    produced,     \* what the producer function returned: "none", "thenable" or "stream"
    returned,     \* the object async returned: "none", "produced" or "toPromise"
    promise,      \* state of the promise the state library awaits
    sPhase,       \* the produced stream: "idle", "active", "completed" or "errored"
    sEmitted,     \* history: the values the produced stream emitted
    tpValue,      \* the value toPromise holds for resolution
    rField,       \* the call whose result the component's field observables$ holds (0: unset)
    rCalled,      \* number of calls of combineComponentObservables on the component
    rKeys,        \* per call: its keysOfObservableMembers
    rExec,        \* per execution of a combined stream: phase, combineLatest's latest values
    rOrder,       \* the executions listening to the store path, in registration order
    rReceived,    \* per call: the snapshots handed to its subscriber
    rDollar,      \* the component's $observables field
    rValue,       \* per call: the value member of its stream
    rEmits,       \* history: number of store changes
    syncCalled,   \* synchronizeObservables(component, changeDetector) has been called
    initialized,  \* the helper's local flag
    timerPending, \* the setTimeout callback is scheduled and has not run
    syncHeap,     \* the objects the helper created; the first is `result`
    syncReturned, \* index in syncHeap of the object the call returned (0: none)
    subscriptions, \* the helper's subscriptions: key and whether it is closed
    detectChangesCalls, \* number of calls of changeDetector.detectChanges()
    syncUnsubscribed,   \* unsubscribe() of the returned object has been called
    syncLog,      \* history: one entry per emission of a stream since the call
    fieldStream,  \* field name -> the stream object the field holds now (0: none)
    constituents, \* the array of stream objects given to combineLatest
    listening,    \* per subscription: the stream objects combineLatest subscribed to
    changes,      \* number of assignments to fields after the call
    atCall,       \* history: the component's fields when the combiner was called
    lastStream    \* history: the stream object that emitted last and the value (id 0 before any)

futVars == <<preUpdate, future, fPhase, running, fReaction, fReceived, fPushed,
             fCompleted, fInitial, fEarlyUnsub, vPhase, vReaction, vReceived, vError>>
obsVars == <<oPhase, oTarget, oListening, oReceived, oExpected, mutations>>
cmbVars == <<component, source, keysOfObservableMembers, cValue, cDollar, cPhase,
             cOrder, cLatest, cReceived, hLast, cExpected, emits, lastKey, failed,
             cError, heap>>
augVars == <<coreHasBeenAgmented, augmentCalls, devtoolsListeners, inits>>
asyVars == <<produced, returned, promise, sPhase, sEmitted, tpValue>>
recVars == <<rField, rCalled, rKeys, rExec, rOrder, rReceived, rDollar, rValue, rEmits>>
synVars == <<syncCalled, initialized, timerPending, syncHeap, syncReturned,
             subscriptions, detectChangesCalls, syncUnsubscribed, syncLog>>
fixVars == <<fieldStream, constituents, listening, changes, atCall, lastStream>>
extVars == <<augVars, asyVars, recVars, synVars, fixVars>>
vars == <<variant, store, futVars, obsVars, cmbVars, extVars>>

\* The names of the component's own fields, in enumeration order.
FieldOrder == <<"obs1$", "obs2$", "other">>
Fields == {FieldOrder[i] : i \in DOMAIN FieldOrder}
\* What a field can hold: a plain value, an EventEmitter, an RxJS Subject, or
\* the stream select(...).observe() returned.
Kinds == {"plain", "emitter", "subject", "observe"}
\* combineLatest's mark for a constituent that has not emitted yet.
NoValue == "NONE"

\* No component has been combined.
IdleCombine ==
    /\ component = [f \in Fields |-> "plain"]
    /\ source = [f \in Fields |-> "a"]
    /\ keysOfObservableMembers = <<>>
    /\ cValue = <<>>
    /\ cDollar = <<>>
    /\ cPhase = [s \in CSubs |-> "idle"]
    /\ cOrder = <<>>
    /\ cLatest = [s \in CSubs |-> <<>>]
    /\ cReceived = [s \in CSubs |-> <<>>]
    /\ hLast = [s \in CSubs |-> [f \in Fields |-> NoValue]]
    /\ cExpected = [s \in CSubs |-> <<>>]
    /\ emits = 0
    /\ lastKey = ""
    /\ failed = [f \in Fields |-> NoError]
    /\ cError = [s \in CSubs |-> NoError]
    /\ heap = <<>>

\* The registration state once the one store (module variant) or the module
\* (unnamed variant) of the application has been created.
IdleAugment ==
    /\ coreHasBeenAgmented = (variant = "module")
    /\ augmentCalls = 1
    /\ devtoolsListeners = IF variant = "unnamed" THEN 1 ELSE 0
    /\ inits = <<>>

\* What toPromise resolves with when the stream completed without a value.
Undefined == "undefined"

\* No producer has been handed to the async bridge.
IdleAsync ==
    /\ produced = "none"
    /\ returned = "none"
    /\ promise = [status |-> "none", value |-> Undefined]
    /\ sPhase = "idle"
    /\ sEmitted = <<>>
    /\ tpValue = Undefined

\* The two calls of the combiner on one component, and the executions of the
\* combined streams: the subscription made to the first call's stream, the one
\* made to the second call's stream, and the one the second stream makes to
\* the first when the first is among its constituents.
Calls == 1..2
Execs == {"ext1", "ext2", "inner"}
IdleExec == [phase |-> "idle", has |-> {}, obs |-> NoValue, inner |-> <<>>]

\* No component has been combined twice.
IdleRecombine ==
    /\ rField = 0
    /\ rCalled = 0
    /\ rKeys = [k \in Calls |-> <<>>]
    /\ rExec = [e \in Execs |-> IdleExec]
    /\ rOrder = <<>>
    /\ rReceived = [k \in Calls |-> <<>>]
    /\ rDollar = <<>>
    /\ rValue = [k \in Calls |-> <<>>]
    /\ rEmits = 0

\* synchronizeObservables has not been called.
IdleSync ==
    /\ syncCalled = FALSE
    /\ initialized = FALSE
    /\ timerPending = FALSE
    /\ syncHeap = <<>>
    /\ syncReturned = 0
    /\ subscriptions = <<>>
    /\ detectChangesCalls = 0
    /\ syncUnsubscribed = FALSE
    /\ syncLog = <<>>

\* No stream object is tracked by identity.
IdleFixed ==
    /\ fieldStream = [f \in Fields |-> 0]
    /\ constituents = <<>>
    /\ listening = [s \in CSubs |-> <<>>]
    /\ changes = 0
    /\ atCall = [component |-> [f \in Fields |-> "plain"],
                 stream |-> [f \in Fields |-> 0]]
    /\ lastStream = [id |-> 0, value |-> NoValue]

IdleExt == IdleAugment /\ IdleAsync /\ IdleRecombine /\ IdleSync /\ IdleFixed

\* The selection/derivation streams when nothing observes and nothing mutates.
IdleObserve ==
    /\ oPhase = [s \in OSubs |-> "idle"]
    /\ oTarget = [s \in OSubs |-> "property"]
    /\ oListening = [s \in OSubs |-> FALSE]
    /\ oReceived = [s \in OSubs |-> <<>>]
    /\ oExpected = [s \in OSubs |-> <<>>]
    /\ mutations = 0

\* The future and its streams when no asynchronous update is under way.
IdleFuture ==
    /\ preUpdate = store["property"]
    /\ future = [status |-> "none", error |-> NoError, result |-> NoError]
    /\ fPhase = [s \in FSubs |-> "idle"]
    /\ running = [s \in FSubs |-> FALSE]
    /\ fReaction = [s \in FSubs |-> "none"]
    /\ fReceived = [s \in FSubs |-> <<>>]
    /\ fPushed = [s \in FSubs |-> 0]
    /\ fCompleted = [s \in FSubs |-> FALSE]
    /\ fInitial = [s \in FSubs |-> [isLoading |-> FALSE]]
    /\ fEarlyUnsub = [s \in FSubs |-> FALSE]
    /\ vPhase = [s \in VSubs |-> "idle"]
    /\ vReaction = [s \in VSubs |-> "none"]
    /\ vReceived = [s \in VSubs |-> <<>>]
    /\ vError = [s \in VSubs |-> NoError]

\* ------------------------------------------------------ the future (olik)
\* input.getFutureState(): the status accessor of the future.
getFutureState ==
    [isLoading   |-> future.status = "pending",
     wasResolved |-> future.status = "resolved",
     wasRejected |-> future.status = "rejected",
     error       |-> future.error,
     storeValue  |-> store["property"]]

\* The fetch resolves with `payload`: the update commits to the store.
Resolve(payload) ==
    /\ future.status = "pending"
    /\ future' = [status |-> "resolved", error |-> NoError, result |-> payload]
    /\ store' = [store EXCEPT !["property"] = payload]
    /\ UNCHANGED <<obsVars, cmbVars, extVars, variant, preUpdate, fPhase, running, fReaction, fReceived, fPushed,
                   fCompleted, fInitial, fEarlyUnsub, vPhase, vReaction, vReceived, vError>>

\* The fetch rejects with `reason`: the update does not commit.
Reject(reason) ==
    /\ future.status = "pending"
    /\ future' = [status |-> "rejected", error |-> reason, result |-> NoError]
    /\ UNCHANGED <<obsVars, cmbVars, extVars, variant, store, preUpdate, fPhase, running, fReaction, fReceived,
                   fPushed, fCompleted, fInitial, fEarlyUnsub, vPhase, vReaction,
                   vReceived, vError>>

\* ------------------------------------------- asObservableFuture (status)
\* The part of the status-stream state one subscription's callbacks touch.
FState(s) ==
    [phase |-> fPhase[s], running |-> running[s], received |-> fReceived[s],
     pushed |-> fPushed[s], completed |-> fCompleted[s]]

\* observer.next(item): counted as a call; a closed subscriber ignores it.
ObserverNext(st, item) ==
    IF st.phase = "active"
    THEN [st EXCEPT !.pushed = @ + 1, !.received = Append(@, item)]
    ELSE [st EXCEPT !.pushed = @ + 1]

TeardownKeepsRunning(st) == st

\* The function returned by the subscribe callback, run by RxJS when the
\* subscription is torn down (the subscriber is already closed by then, so the
\* observer.complete() of the unnamed variant reaches nobody).
Teardown(st) == [st EXCEPT !.running = FALSE]

\* observer.complete(): an open subscriber is told, closes, and is torn down.
ObserverComplete(st) ==
    IF st.phase = "active"
    THEN Teardown([st EXCEPT !.phase = "completed", !.completed = TRUE])
    ELSE st

\* The callback given to then():
\*   module :  if (running) { observer.next(input.getFutureState()); }
\*   unnamed:  if (running) { observer.next(input.getFutureState());
\*                            observer.complete(); }
OnFulfilled(st, snapshot) ==
    IF st.running
    THEN IF variant = "unnamed"
         THEN ObserverComplete(ObserverNext(st, snapshot))
         ELSE ObserverNext(st, snapshot)
    ELSE st

OnRejectedMissing(st, snapshot) == st

\* The callback given to catch(); its body is that of then()'s callback.
OnRejected(st, snapshot) ==
    IF st.running
    THEN IF variant = "unnamed"
         THEN ObserverComplete(ObserverNext(st, snapshot))
         ELSE ObserverNext(st, snapshot)
    ELSE st

ReactionSkipsDuplicate(st, snapshot) ==
    IF st.received # <<>> /\ st.received[Len(st.received)] = snapshot
    THEN st
    ELSE IF future.status = "resolved"
         THEN OnFulfilled(st, snapshot)
         ELSE OnRejected(st, snapshot)

\* promise.then(f).catch(g) on a settled promise: on fulfilment f runs and,
\* as f returns normally, g is skipped; on rejection f is skipped and g runs.
Reaction(st, snapshot) ==
    IF future.status = "resolved"
    THEN OnFulfilled(st, snapshot)
    ELSE OnRejected(st, snapshot)

\* Writes one subscription's state back.
FPut(s, st) ==
    /\ fPhase' = [fPhase EXCEPT ![s] = st.phase]
    /\ running' = [running EXCEPT ![s] = st.running]
    /\ fReceived' = [fReceived EXCEPT ![s] = st.received]
    /\ fPushed' = [fPushed EXCEPT ![s] = st.pushed]
    /\ fCompleted' = [fCompleted EXCEPT ![s] = st.completed]

SubscribeStatusNoInitial(st, snapshot) == [st EXCEPT !.running = TRUE]

\* The body of the subscribe callback up to the chaining of the reaction:
\* observer.next(input.getFutureState()); let running = true;
SubscribeStatus(st, snapshot) ==
    [ObserverNext(st, snapshot) EXCEPT !.running = TRUE]

FSubscribeSettledSync(s) ==
    /\ fPhase[s] = "idle"
    /\ LET st == SubscribeStatus([FState(s) EXCEPT !.phase = "active"], getFutureState)
       IN IF future.status # "pending"
          THEN /\ FPut(s, Reaction(st, getFutureState))
               /\ fReaction' = [fReaction EXCEPT ![s] = "done"]
          ELSE /\ FPut(s, st)
               /\ fReaction' = [fReaction EXCEPT ![s] = "queued"]
    /\ fInitial' = [fInitial EXCEPT ![s] = getFutureState]
    /\ UNCHANGED <<obsVars, cmbVars, extVars, variant, store, preUpdate, future, fEarlyUnsub,
                   vPhase, vReaction, vReceived, vError>>

\* asObservableFuture().subscribe(...): the initial snapshot is pushed inside
\* the call, then the reaction is chained on the promise.
FSubscribe(s) ==
    /\ fPhase[s] = "idle"
    /\ FPut(s, SubscribeStatus([FState(s) EXCEPT !.phase = "active"], getFutureState))
    /\ fReaction' = [fReaction EXCEPT ![s] = "queued"]
    /\ fInitial' = [fInitial EXCEPT ![s] = getFutureState]
    /\ UNCHANGED <<obsVars, cmbVars, extVars, variant, store, preUpdate, future, fEarlyUnsub,
                   vPhase, vReaction, vReceived, vError>>

FUnsubscribeAborts(s) ==
    /\ fPhase[s] = "active"
    /\ FPut(s, Teardown([FState(s) EXCEPT !.phase = "unsubscribed"]))
    /\ fEarlyUnsub' = [fEarlyUnsub EXCEPT ![s] = (future.status = "pending")]
    /\ future' = IF future.status = "pending"
                 THEN [status |-> "rejected", error |-> "aborted", result |-> NoError]
                 ELSE future
    /\ UNCHANGED <<obsVars, cmbVars, extVars, variant, store, preUpdate, fReaction, fInitial,
                   vPhase, vReaction, vReceived, vError>>

\* subscription.unsubscribe() by the consumer: RxJS closes the subscriber and
\* runs the teardown.
FUnsubscribe(s) ==
    /\ fPhase[s] = "active"
    /\ FPut(s, Teardown([FState(s) EXCEPT !.phase = "unsubscribed"]))
    /\ fEarlyUnsub' = [fEarlyUnsub EXCEPT ![s] = (future.status = "pending")]
    /\ UNCHANGED <<obsVars, cmbVars, extVars, variant, store, preUpdate, future, fReaction, fInitial,
                   vPhase, vReaction, vReceived, vError>>

\* Once the future has settled the chained reaction runs, in a later step
\* than the settlement (promise callbacks are never run synchronously).
FRunReaction(s) ==
    /\ fReaction[s] = "queued"
    /\ future.status # "pending"
    /\ FPut(s, Reaction(FState(s), getFutureState))
    /\ fReaction' = [fReaction EXCEPT ![s] = "done"]
    /\ UNCHANGED <<obsVars, cmbVars, extVars, variant, store, preUpdate, future, fInitial, fEarlyUnsub,
                   vPhase, vReaction, vReceived, vError>>

\* C25: the step that subscribes to the status stream hands the subscriber
\* exactly the snapshot read at that moment and nothing else; any further
\* snapshot is handed in a later step, one snapshot per step, and only by the
\* reaction to the settled future; a subscriber is never handed more than
\* one snapshot after the initial one.
ClaimC25 ==
    /\ [](\A s \in FSubs : Len(fReceived[s]) <= 2)
    /\ [][\A s \in FSubs :
            /\ (fPhase[s] = "idle" /\ fPhase'[s] # "idle")
                  => fReceived'[s] = <<getFutureState>>
            /\ (fPhase[s] # "idle" /\ fReceived'[s] # fReceived[s])
                  => /\ fReceived[s] = <<fInitial[s]>>
                     /\ Len(fReceived'[s]) = 2
                     /\ future.status # "pending"
                     /\ fReaction[s] = "queued" /\ fReaction'[s] = "done"]_vars

\* One subscription made while the future was pending and one made after it
\* had settled, each handed its initial and its terminal snapshot.
WitnessC25 ==
    \E s, r \in FSubs :
        /\ fInitial[s].isLoading /\ Len(fReceived[s]) = 2
        /\ fPhase[r] # "idle" /\ ~fInitial[r].isLoading /\ Len(fReceived[r]) = 2

\* ------------------------------------------------ asObservable (value)
VState(s) == [phase |-> vPhase[s], received |-> vReceived[s], error |-> vError[s]]

VPut(s, st) ==
    /\ vPhase' = [vPhase EXCEPT ![s] = st.phase]
    /\ vReceived' = [vReceived EXCEPT ![s] = st.received]
    /\ vError' = [vError EXCEPT ![s] = st.error]

\* from(promise) once the promise has settled: a fulfilled promise gives one
\* value and completion, a rejected one gives the error.
FromPromise(st) ==
    IF st.phase # "active" THEN st
    ELSE IF future.status = "resolved"
         THEN [st EXCEPT !.received = Append(@, future.result), !.phase = "completed"]
         ELSE [st EXCEPT !.error = future.error, !.phase = "errored"]

VSubscribeEmitsCurrent(st) ==
    [st EXCEPT !.phase = "active", !.received = Append(@, store["property"])]

\* Subscribing to from(promise) only chains a reaction on the promise.
VSubscribeBody(st) == [st EXCEPT !.phase = "active"]

\* asObservable().subscribe(...)
VSubscribe(s) ==
    /\ vPhase[s] = "idle"
    /\ VPut(s, VSubscribeBody(VState(s)))
    /\ vReaction' = [vReaction EXCEPT ![s] = "queued"]
    /\ UNCHANGED <<obsVars, cmbVars, extVars, variant, store, preUpdate, future, fPhase, running, fReaction,
                   fReceived, fPushed, fCompleted, fInitial, fEarlyUnsub>>

VUnsubscribe(s) ==
    /\ vPhase[s] = "active"
    /\ vPhase' = [vPhase EXCEPT ![s] = "unsubscribed"]
    /\ UNCHANGED <<obsVars, cmbVars, extVars, variant, store, preUpdate, future, fPhase, running, fReaction,
                   fReceived, fPushed, fCompleted, fInitial, fEarlyUnsub,
                   vReaction, vReceived, vError>>

VRunReaction(s) ==
    /\ vReaction[s] = "queued"
    /\ future.status # "pending"
    /\ VPut(s, FromPromise(VState(s)))
    /\ vReaction' = [vReaction EXCEPT ![s] = "done"]
    /\ UNCHANGED <<obsVars, cmbVars, extVars, variant, store, preUpdate, future, fPhase, running, fReaction,
                   fReceived, fPushed, fCompleted, fInitial, fEarlyUnsub>>

\* ------------------------------------------------------- specification
\* select(s => s.object.property).replace(fetch) has just been called: the
\* future is pending and nothing has subscribed yet.
InitFuture ==
    /\ variant \in Variants
    /\ IdleExt
    /\ IdleObserve
    /\ IdleCombine
    /\ store = InitialState
    /\ preUpdate = store["property"]
    /\ future = [status |-> "pending", error |-> NoError, result |-> NoError]
    /\ fPhase = [s \in FSubs |-> "idle"]
    /\ running = [s \in FSubs |-> FALSE]
    /\ fReaction = [s \in FSubs |-> "none"]
    /\ fReceived = [s \in FSubs |-> <<>>]
    /\ fPushed = [s \in FSubs |-> 0]
    /\ fCompleted = [s \in FSubs |-> FALSE]
    /\ fInitial = [s \in FSubs |-> getFutureState]
    /\ fEarlyUnsub = [s \in FSubs |-> FALSE]
    /\ vPhase = [s \in VSubs |-> "idle"]
    /\ vReaction = [s \in VSubs |-> "none"]
    /\ vReceived = [s \in VSubs |-> <<>>]
    /\ vError = [s \in VSubs |-> NoError]

NextFuture ==
    \/ \E p \in Values : Resolve(p)
    \/ \E r \in Reasons : Reject(r)
    \/ \E s \in FSubs : FSubscribe(s)
    \/ \E s \in FSubs : FUnsubscribe(s)
    \/ \E s \in FSubs : FRunReaction(s)
    \/ \E s \in VSubs : VSubscribe(s)
    \/ \E s \in VSubs : VUnsubscribe(s)
    \/ \E s \in VSubs : VRunReaction(s)

SpecFuture == InitFuture /\ [][NextFuture]_vars

\* ------------------------------------------------- claims on the future
\* The snapshot a subscriber of a pending future is handed first.
LoadingSnapshot ==
    [isLoading |-> TRUE, wasResolved |-> FALSE, wasRejected |-> FALSE,
     error |-> NoError, storeValue |-> preUpdate]

ResolvedSnapshot ==
    [isLoading |-> FALSE, wasResolved |-> TRUE, wasRejected |-> FALSE,
     error |-> NoError, storeValue |-> future.result]

RejectedSnapshot ==
    [isLoading |-> FALSE, wasResolved |-> FALSE, wasRejected |-> TRUE,
     error |-> future.error, storeValue |-> preUpdate]

\* The subscription was made while the future was pending and the consumer
\* has not unsubscribed.
PendingAtSubscription(s) ==
    /\ fPhase[s] \in {"active", "completed"}
    /\ fInitial[s].isLoading

ClaimC2 ==
    \A s \in FSubs :
        (PendingAtSubscription(s) /\ future.status = "rejected" /\ fReaction[s] = "done")
            => /\ Len(fReceived[s]) = 2
               /\ fReceived[s][2] = RejectedSnapshot
               /\ fReceived[s][2].storeValue = store["property"]

WitnessC2 ==
    \E s \in FSubs :
        /\ PendingAtSubscription(s)
        /\ future.status = "rejected"
        /\ fReaction[s] = "done"
        /\ fReceived[s][2].error = "test"

\* C3: from the moment the consumer has unsubscribed, the subscription is
\* neither handed nor pushed another snapshot, whatever the future does.
ClaimC3 ==
    [][\A s \in FSubs :
          fPhase[s] = "unsubscribed"
              => /\ fReceived'[s] = fReceived[s]
                 /\ fPushed'[s] = fPushed[s]
                 /\ fCompleted'[s] = fCompleted[s]]_vars

\* Unsubscribed while pending; the future then settled and the reaction ran.
WitnessC3 ==
    \E s \in FSubs :
        /\ fPhase[s] = "unsubscribed"
        /\ fEarlyUnsub[s]
        /\ future.status # "pending"
        /\ fReaction[s] = "done"
        /\ Len(fReceived[s]) = 1

\* C9: the value-only stream hands its subscriber nothing before the future
\* settles; on resolution (reaction run, not unsubscribed) exactly the payload
\* and then completion; on rejection no value and the rejection reason as the
\* stream's error.
ClaimC9 ==
    \A s \in VSubs :
        /\ Len(vReceived[s]) <= 1
        /\ vReceived[s] # <<>>
              => future.status = "resolved" /\ vReceived[s] = <<future.result>>
        /\ vPhase[s] = "completed" <=> vReceived[s] # <<>>
        /\ vPhase[s] = "errored" <=> vError[s] # NoError
        /\ vError[s] # NoError
              => future.status = "rejected" /\ vError[s] = future.error
        /\ (vReaction[s] = "done" /\ vPhase[s] # "unsubscribed")
              => vPhase[s] = (IF future.status = "resolved" THEN "completed" ELSE "errored")

\* The future resolved with a payload other than the pre-update value and the
\* subscriber was handed it and told of completion.
WitnessC9 ==
    \E s \in VSubs :
        /\ vReaction[s] = "done"
        /\ vPhase[s] = "completed"
        /\ future.result # preUpdate
        /\ vReceived[s] = <<future.result>>

\* C10: once the terminal snapshot has been delivered the subscriber has been
\* told of completion, and completion is never signalled before the terminal
\* snapshot.
ClaimC10 ==
    \A s \in FSubs :
        /\ (fReaction[s] = "done" /\ Len(fReceived[s]) = 2) => fCompleted[s]
        /\ fCompleted[s] => (fReaction[s] = "done" /\ Len(fReceived[s]) = 2)

\* C11: a subscription made after the future has settled is handed the settled
\* snapshot inside subscribe and, once the reaction has run, the same snapshot
\* a second time: two snapshots in all, the terminal one not skipped.
ClaimC11 ==
    \A s \in FSubs :
        (fPhase[s] \in {"active", "completed"} /\ ~fInitial[s].isLoading)
            => /\ fInitial[s] = getFutureState
               /\ fReaction[s] # "done" => fReceived[s] = <<getFutureState>>
               /\ fReaction[s] = "done" => fReceived[s] = <<getFutureState, getFutureState>>

\* Subscribed after a rejection; both snapshots handed over.
WitnessC11 ==
    \E s \in FSubs :
        /\ fPhase[s] \in {"active", "completed"}
        /\ fInitial[s].wasRejected
        /\ fReaction[s] = "done"
        /\ Len(fReceived[s]) = 2
        /\ fReceived[s][1] = fReceived[s][2]

\* The future settles, whoever listens.
Settle == (\E p \in Values : Resolve(p)) \/ (\E r \in Reasons : Reject(r))

\* C14: a step in which a subscriber of the status stream unsubscribes changes
\* neither the future nor the store; a pending future can still settle
\* whatever the subscriptions are; and the store holds the payload if the
\* future resolved and the pre-update value otherwise, as it would had nobody
\* unsubscribed.
ClaimC14 ==
    /\ [][\A s \in FSubs :
            (fPhase[s] = "active" /\ fPhase'[s] = "unsubscribed")
                => (future' = future /\ store' = store)]_vars
    /\ [](future.status = "pending" => ENABLED Settle)
    /\ [](store["property"] = IF future.status = "resolved" THEN future.result ELSE preUpdate)

\* Unsubscribed while pending, and the future resolved afterwards all the same.
WitnessC14 ==
    \E s \in FSubs :
        /\ fPhase[s] = "unsubscribed"
        /\ fEarlyUnsub[s]
        /\ future.status = "resolved"
        /\ store["property"] = future.result
        /\ future.result # preUpdate

\* ------------------------------------------- observe() (selection, derivation)
Targets == Paths \cup {"derivation"}

\* deriveFrom(property, string).usingExpensiveCalc((a, b) => a + b)
Calc(a, b) == a \o b

\* selection.read() (module) / selection.state (unnamed) on the store `st`.
Read(st, target) ==
    IF target = "derivation" THEN Calc(st["property"], st["string"]) ELSE st[target]

\* Whether a change of `path` changes what `target` reads.
Affects(path, target) == target = "derivation" \/ target = path

OState(s) == [phase |-> oPhase[s], listening |-> oListening[s], received |-> oReceived[s]]

OPut(s, st) ==
    /\ oPhase' = [oPhase EXCEPT ![s] = st.phase]
    /\ oListening' = [oListening EXCEPT ![s] = st.listening]
    /\ oReceived' = [oReceived EXCEPT ![s] = st.received]

\* observer.next(v) on an observe() subscriber; a closed subscriber ignores it.
ObserveNext(st, v) ==
    IF st.phase = "active" THEN [st EXCEPT !.received = Append(@, v)] ELSE st

ObserveBodyNoInitial(st, current) == [st EXCEPT !.listening = TRUE]

ObserveBodyNoListener(st, current) == ObserveNext(st, current)

\* The subscribe callback of observe():
\*   observer.next(selection.read());
\*   const subscription = selection.onChange(v => observer.next(v));
ObserveBody(st, current) ==
    [ObserveNext(st, current) EXCEPT !.listening = TRUE]

\* The listener given to onChange: v => observer.next(v)
OnChange(st, v) == ObserveNext(st, v)

ObserveTeardownLeaks(st) == st

\* The teardown of observe(): subscription.unsubscribe() (and, in the unnamed
\* variant, observer.complete() on the subscriber RxJS has already closed).
ObserveTeardown(st) == [st EXCEPT !.listening = FALSE]

\* select(...).observe().subscribe(...) or derivation.observe().subscribe(...)
OSubscribe(s, target) ==
    /\ oPhase[s] = "idle"
    /\ OPut(s, ObserveBody([OState(s) EXCEPT !.phase = "active"], Read(store, target)))
    /\ oTarget' = [oTarget EXCEPT ![s] = target]
    /\ oExpected' = [oExpected EXCEPT ![s] = <<Read(store, target)>>]
    /\ UNCHANGED <<cmbVars, extVars, variant, store, futVars, mutations>>

OUnsubscribe(s) ==
    /\ oPhase[s] = "active"
    /\ OPut(s, ObserveTeardown([OState(s) EXCEPT !.phase = "unsubscribed"]))
    /\ UNCHANGED <<cmbVars, extVars, variant, store, futVars, oTarget, oExpected, mutations>>

\* select(s => s[path]).replace(v) with a value other than the current one:
\* the store changes and olik calls, with the new value of what each reads,
\* the listeners registered on the selections and derivations it affects.
Mutate(path, v) ==
    /\ mutations < MaxMutations
    /\ v # store[path]
    /\ mutations' = mutations + 1
    /\ store' = [store EXCEPT ![path] = v]
    /\ oReceived' = [s \in OSubs |->
          IF oListening[s] /\ Affects(path, oTarget[s])
          THEN OnChange(OState(s), Read(store', oTarget[s])).received
          ELSE oReceived[s]]
    /\ oExpected' = [s \in OSubs |->
          IF oPhase[s] = "active" /\ Affects(path, oTarget[s])
          THEN Append(oExpected[s], Read(store', oTarget[s]))
          ELSE oExpected[s]]
    /\ UNCHANGED <<cmbVars, extVars, variant, futVars, oPhase, oTarget, oListening>>

InitObserve ==
    /\ variant \in Variants
    /\ IdleExt
    /\ store = InitialState
    /\ IdleFuture
    /\ IdleObserve
    /\ IdleCombine

NextObserve ==
    \/ \E s \in OSubs, target \in Targets : OSubscribe(s, target)
    \/ \E s \in OSubs : OUnsubscribe(s)
    \/ \E path \in Paths, v \in Values : Mutate(path, v)

SpecObserve == InitObserve /\ [][NextObserve]_vars

\* ------------------------------------------------- claims on observe()
\* C4: every subscription to an observe() stream, of a selection or of the
\* derivation, has been handed as its first value the value the selection or
\* derivation had when subscribe was called, whatever other subscriptions
\* exist and whatever mutations came before or after.
ClaimC4 ==
    \A s \in OSubs :
        oPhase[s] # "idle"
            => /\ Len(oReceived[s]) >= 1
               /\ oReceived[s][1] = oExpected[s][1]

\* Two subscriptions to the same target, made at different store states.
WitnessC4 ==
    \E s, r \in OSubs :
        /\ oPhase[s] # "idle" /\ oPhase[r] # "idle"
        /\ oTarget[s] = oTarget[r]
        /\ oReceived[s][1] # oReceived[r][1]
        /\ mutations >= 2

\* C5: a subscription has been handed, after its initial value, exactly one
\* value per mutation of what it observes made while it was subscribed, each
\* the value that mutation produced, in mutation order.
ClaimC5 ==
    \A s \in OSubs :
        oPhase[s] = "active" => oReceived[s] = oExpected[s]

WitnessC5 ==
    \E s \in OSubs :
        /\ oPhase[s] = "active"
        /\ Len(oReceived[s]) = 1 + MaxMutations
        /\ oTarget[s] = "property"

\* The subscriptions whose onChange listener is registered on `target`.
ListenersOn(target) == {s \in OSubs : oListening[s] /\ oTarget[s] = target}
ActiveOn(target) == {s \in OSubs : oPhase[s] = "active" /\ oTarget[s] = target}

\* C15: on every selection and on the derivation the registered change
\* listeners are exactly those of the subscriptions still active, so as many
\* as these; and a subscription that was unsubscribed holds what it had been
\* handed for the mutations made while it was subscribed, and nothing later.
ClaimC15 ==
    /\ \A target \in Targets :
          /\ ListenersOn(target) = ActiveOn(target)
          /\ Cardinality(ListenersOn(target)) = Cardinality(ActiveOn(target))
    /\ \A s \in OSubs : oListening[s] => oPhase[s] = "active"
    /\ \A s \in OSubs : oPhase[s] = "unsubscribed" => oReceived[s] = oExpected[s]

\* One subscription unsubscribed and a mutation of what it observed made
\* afterwards, while another subscription to the same target stays active.
WitnessC15 ==
    \E s, r \in OSubs :
        /\ oPhase[s] = "unsubscribed"
        /\ oPhase[r] = "active"
        /\ oTarget[s] = oTarget[r]
        /\ Len(oReceived[r]) > Len(oReceived[s])
        /\ ListenersOn(oTarget[s]) = {r}

\* ------------------------------------------- combineComponentObservables
\* value instanceof Observable: Subjects, EventEmitters (which extend Subject)
\* and the streams observe() returns.
InstanceOfObservable(kind) == kind \in {"emitter", "subject", "observe"}

\* value instanceof EventEmitter
InstanceOfEventEmitter(kind) == kind = "emitter"

KeysOfObservableMembersAnyObservable(comp) ==
    SelectSeq(FieldOrder, LAMBDA key : InstanceOfObservable(comp[key]))

\* Object.keys(component).filter(key => component[key] instanceof Observable
\*                                   && !(component[key] instanceof EventEmitter))
KeysOfObservableMembers(comp) ==
    SelectSeq(FieldOrder, LAMBDA key :
        InstanceOfObservable(comp[key]) /\ ~InstanceOfEventEmitter(comp[key]))

\* The state the callbacks of the combined stream read and write.
CState ==
    [value |-> cValue, dollar |-> cDollar, phase |-> cPhase,
     latest |-> cLatest, received |-> cReceived, error |-> cError, heap |-> heap]

CPut(g) ==
    /\ cValue' = g.value
    /\ cDollar' = g.dollar
    /\ cPhase' = g.phase
    /\ cLatest' = g.latest
    /\ cReceived' = g.received
    /\ cError' = g.error
    /\ heap' = g.heap

ResultOfShifted(keys, observers) ==
    [key \in {keys[i] : i \in DOMAIN keys} |->
        observers[((CHOOSE i \in DOMAIN keys : keys[i] = key) % Len(keys)) + 1]]

\* const result = {};
\* observers.forEach((obs, idx) => result[keysOfObservableMembers[idx]] = obs);
ResultOf(keys, observers) ==
    [key \in {keys[i] : i \in DOMAIN keys} |->
        observers[CHOOSE i \in DOMAIN keys : keys[i] = key]]

PublishDollarOnly(g, result) == [g EXCEPT !.dollar = <<result>>]

\* (component as any).$observables = result; (res as any).value = result;
Publish(g, result) == [g EXCEPT !.dollar = <<result>>, !.value = <<result>>]

\* `return result`: map hands the snapshot to the subscriber of the combined
\* stream; the item records what the snapshot held, which object it is (the
\* one created last) and what res.value reads inside that callback.
Downstream(g, s, result) ==
    IF g.phase[s] = "active"
    THEN [g EXCEPT !.received[s] =
            Append(@, [snap |-> result, sync |-> g.value, ref |-> Len(g.heap)])]
    ELSE g

NewObjectReused(g) ==
    IF g.heap = <<>> THEN [g EXCEPT !.heap = Append(@, <<>>)] ELSE g

\* const result = {}: a new, empty object.
NewObject(g) == [g EXCEPT !.heap = Append(@, <<>>)]

\* The function given to map(), applied to one emission of combineLatest: it
\* creates the object, fills it, publishes it and returns it.
MapProject(g, s, observers) ==
    LET g1 == NewObject(g)
        result == ResultOf(keysOfObservableMembers, observers)
        g2 == [g1 EXCEPT !.heap[Len(g1.heap)] = result]
    IN Downstream(Publish(g2, result), s, result)

CombineLatestNextStartWith(g, s, idx, v) ==
    LET latest == [g.latest[s] EXCEPT ![idx] = v]
        g1 == [g EXCEPT !.latest[s] = latest]
    IN MapProject(g1, s, latest)

CombineLatestNextDistinct(g, s, idx, v) ==
    LET latest == [g.latest[s] EXCEPT ![idx] = v]
        g1 == [g EXCEPT !.latest[s] = latest]
    IN IF (\A i \in DOMAIN latest : latest[i] # NoValue) /\ v # g.latest[s][idx]
       THEN MapProject(g1, s, latest)
       ELSE g1

\* combineLatest on the emission of v by its idx-th constituent: the latest
\* values are emitted once every constituent has emitted.
CombineLatestNext(g, s, idx, v) ==
    LET latest == [g.latest[s] EXCEPT ![idx] = v]
        g1 == [g EXCEPT !.latest[s] = latest]
    IN IF \A i \in DOMAIN latest : latest[i] # NoValue
       THEN MapProject(g1, s, latest)
       ELSE g1

\* Index of a key among the keys of the call (0 when it is none of them).
IndexOf(key) ==
    IF \E i \in DOMAIN keysOfObservableMembers : keysOfObservableMembers[i] = key
    THEN CHOOSE i \in DOMAIN keysOfObservableMembers : keysOfObservableMembers[i] = key
    ELSE 0

\* combineLatest subscribes to its constituents in order, from the idx-th on;
\* a stream observe() returned emits its current value inside the call.
CombineLatestErrorIsolated(g, s, reason) == g

\* combineLatest on the error of one constituent: the error goes downstream
\* (map passes it on unchanged) and the subscription ends.
CombineLatestError(g, s, reason) ==
    IF g.phase[s] = "active"
    THEN [g EXCEPT !.phase[s] = "errored", !.error[s] = reason]
    ELSE g

\* combineLatest subscribes to its constituents in order, from the idx-th on,
\* for as long as the subscription is open; a stream observe() returned emits
\* its current value inside the call, a Subject that has errored its error.
RECURSIVE SubscribeConstituents(_, _, _)
SubscribeConstituents(g, s, idx) ==
    IF idx > Len(keysOfObservableMembers) \/ g.phase[s] # "active" THEN g
    ELSE LET key == keysOfObservableMembers[idx]
             g1 == IF component[key] = "observe"
                   THEN CombineLatestNext(g, s, idx, source[key])
                   ELSE IF failed[key] # NoError
                        THEN CombineLatestError(g, s, failed[key])
                        ELSE g
         IN SubscribeConstituents(g1, s, idx + 1)

\* The Subject in field `key` errors: its subscribers are told in
\* subscription order.
RECURSIVE ErrorTo(_, _, _, _)
ErrorTo(g, order, key, reason) ==
    IF order = <<>> THEN g
    ELSE LET s == Head(order)
             g1 == IF IndexOf(key) # 0
                   THEN CombineLatestError(g, s, reason)
                   ELSE g
         IN ErrorTo(g1, Tail(order), key, reason)

EmitToInternal(g, order, key, v) ==
    IF IndexOf(key) # 0
    THEN Publish(g, [k \in {key} |-> v])
    ELSE g

\* The stream in field `key` emits v to its subscribers, in subscription order.
RECURSIVE EmitTo(_, _, _, _)
EmitTo(g, order, key, v) ==
    IF order = <<>> THEN g
    ELSE LET s == Head(order)
             g1 == IF IndexOf(key) # 0
                   THEN CombineLatestNext(g, s, IndexOf(key), v)
                   ELSE g
         IN EmitTo(g1, Tail(order), key, v)

\* The fields the combined stream is to report: those holding an Observable
\* that is not an EventEmitter.
Qualifying == {f \in Fields : component[f] \in {"subject", "observe"}}

\* History: the snapshot of the last values a subscription's streams emitted.
Due(last) == [f \in Qualifying |-> last[f]]
AllEmitted(last) == \A f \in Qualifying : last[f] # NoValue

\* observables$.subscribe(...): combineLatest subscribes to every constituent;
\* with no constituent at all it completes at once.
CSubscribe(s) ==
    /\ cPhase[s] = "idle"
    /\ LET g0 == [CState EXCEPT !.phase[s] = "active",
                               !.latest[s] = [i \in DOMAIN keysOfObservableMembers |-> NoValue]]
           g1 == SubscribeConstituents(g0, s, 1)
           g2 == IF keysOfObservableMembers = <<>>
                 THEN [g1 EXCEPT !.phase[s] = "completed"]
                 ELSE g1
           last == [f \in Fields |-> IF component[f] = "observe" THEN source[f] ELSE NoValue]
       IN /\ CPut(g2)
          /\ cOrder' = IF g2.phase[s] = "active" THEN Append(cOrder, s) ELSE cOrder
          /\ hLast' = [hLast EXCEPT ![s] = last]
          /\ cExpected' = [cExpected EXCEPT ![s] =
                IF Qualifying # {} /\ AllEmitted(last) THEN <<Due(last)>> ELSE <<>>]
    /\ UNCHANGED <<extVars, variant, store, futVars, obsVars, component, source,
                   keysOfObservableMembers, emits, lastKey, failed>>

\* The consumer unsubscribes: combineLatest unsubscribes from every constituent.
CUnsubscribe(s) ==
    /\ cPhase[s] = "active"
    /\ cPhase' = [cPhase EXCEPT ![s] = "unsubscribed"]
    /\ cOrder' = SelectSeq(cOrder, LAMBDA r : r # s)
    /\ UNCHANGED <<extVars, variant, store, futVars, obsVars, component, source,
                   keysOfObservableMembers, cValue, cDollar, cLatest, cReceived,
                   hLast, cExpected, emits, lastKey, failed, cError, heap>>

\* The stream in field `key` emits v: a mutation of the selection behind an
\* observe() stream (a value other than the current one), or next(v) on a
\* Subject or an EventEmitter.
Emit(key, v) ==
    /\ emits < MaxEmits
    /\ component[key] # "plain"
    /\ component[key] = "observe" => v # source[key]
    /\ failed[key] = NoError
    /\ emits' = emits + 1
    /\ lastKey' = key
    /\ source' = IF component[key] = "observe" THEN [source EXCEPT ![key] = v] ELSE source
    /\ CPut(EmitTo(CState, cOrder, key, v))
    /\ hLast' = [s \in DOMAIN cPhase |->
          IF cPhase[s] = "active" THEN [hLast[s] EXCEPT ![key] = v] ELSE hLast[s]]
    /\ cExpected' = [s \in DOMAIN cPhase |->
          IF cPhase[s] = "active" /\ key \in Qualifying /\ AllEmitted(hLast'[s])
          THEN Append(cExpected[s], Due(hLast'[s]))
          ELSE cExpected[s]]
    /\ UNCHANGED <<extVars, variant, store, futVars, obsVars, component,
                   keysOfObservableMembers, cOrder, failed>>

\* error(reason) on the Subject or EventEmitter in field `key`: it is stopped
\* from then on, and whoever is subscribed to it is handed the error.
Fail(key, reason) ==
    /\ component[key] \in {"subject", "emitter"}
    /\ failed[key] = NoError
    /\ failed' = [failed EXCEPT ![key] = reason]
    /\ LET g == ErrorTo(CState, cOrder, key, reason)
       IN /\ CPut(g)
          /\ cOrder' = SelectSeq(cOrder, LAMBDA s : g.phase[s] = "active")
    /\ UNCHANGED <<extVars, variant, store, futVars, obsVars, component, source,
                   keysOfObservableMembers, hLast, cExpected, emits, lastKey>>

\* A component has been constructed, its fields holding any mix of plain
\* values, EventEmitters, Subjects and observe() streams, and
\* combineComponentObservables(component) has been called on it.
InitCombine ==
    /\ variant = "module"
    /\ IdleExt
    /\ store = InitialState
    /\ IdleFuture
    /\ IdleObserve
    /\ component \in [Fields -> Kinds]
    /\ source = [f \in Fields |-> IF f = "obs2$" THEN "b" ELSE "a"]
    /\ keysOfObservableMembers = KeysOfObservableMembers(component)
    /\ cValue = <<>>
    /\ cDollar = <<>>
    /\ cPhase = [s \in CSubs |-> "idle"]
    /\ cOrder = <<>>
    /\ cLatest = [s \in CSubs |-> <<>>]
    /\ cReceived = [s \in CSubs |-> <<>>]
    /\ hLast = [s \in CSubs |-> [f \in Fields |-> NoValue]]
    /\ cExpected = [s \in CSubs |-> <<>>]
    /\ emits = 0
    /\ lastKey = ""
    /\ failed = [f \in Fields |-> NoError]
    /\ cError = [s \in CSubs |-> NoError]
    /\ heap = <<>>

NextCombine ==
    \/ \E s \in CSubs : CSubscribe(s)
    \/ \E s \in CSubs : CUnsubscribe(s)
    \/ \E key \in Fields, v \in {"a", "b"} : Emit(key, v)
    \/ \E key \in Fields, reason \in Reasons : Fail(key, reason)

SpecCombine == InitCombine /\ [][NextCombine]_vars

\* A component none of whose fields qualifies (plain values and EventEmitters
\* only) has been constructed and combined.
InitCombineEmpty ==
    /\ variant = "module"
    /\ IdleExt
    /\ store = InitialState
    /\ IdleFuture
    /\ IdleObserve
    /\ component \in [Fields -> {"plain", "emitter"}]
    /\ source = [f \in Fields |-> "a"]
    /\ keysOfObservableMembers = KeysOfObservableMembers(component)
    /\ cValue = <<>>
    /\ cDollar = <<>>
    /\ cPhase = [s \in ESubs |-> "idle"]
    /\ cOrder = <<>>
    /\ cLatest = [s \in ESubs |-> <<>>]
    /\ cReceived = [s \in ESubs |-> <<>>]
    /\ hLast = [s \in ESubs |-> [f \in Fields |-> NoValue]]
    /\ cExpected = [s \in ESubs |-> <<>>]
    /\ emits = 0
    /\ lastKey = ""
    /\ failed = [f \in Fields |-> NoError]
    /\ cError = [s \in ESubs |-> NoError]
    /\ heap = <<>>

\* Such a stream completes inside subscribe, so that there is never an open
\* subscription to unsubscribe.
NextCombineEmpty ==
    \/ \E s \in ESubs : CSubscribe(s)
    \/ \E key \in Fields, v \in {"a", "b"} : Emit(key, v)
    \/ \E key \in Fields, reason \in Reasons : Fail(key, reason)

SpecCombineEmpty == InitCombineEmpty /\ [][NextCombineEmpty]_vars

\* --------------------------------------------- claims on the combiner
\* The snapshots a subscription has been handed, in order.
Snaps(s) == [i \in DOMAIN cReceived[s] |-> cReceived[s][i].snap]

ClaimC7 ==
    /\ \A s \in CSubs : \A i \in DOMAIN cReceived[s] :
          DOMAIN cReceived[s][i].snap = Qualifying
    /\ cValue # <<>> => DOMAIN cValue[1] = Qualifying
    /\ cDollar # <<>> => DOMAIN cDollar[1] = Qualifying

\* A snapshot of a component that has a plain field, an EventEmitter that has
\* emitted, and an observable field.
WitnessC7 ==
    \E s \in CSubs :
        /\ cReceived[s] # <<>>
        /\ component["obs1$"] = "emitter"
        /\ component["other"] = "plain"
        /\ component["obs2$"] = "observe"
        /\ hLast[s]["obs1$"] # NoValue

\* C8: every snapshot handed to a subscriber of the combined stream was, at
\* the moment it was handed over, the value res.value read.
ClaimC8 ==
    \A s \in CSubs : \A i \in DOMAIN cReceived[s] :
        cReceived[s][i].sync = <<cReceived[s][i].snap>>

\* A second snapshot was handed over: the one before it is stale by then.
WitnessC8 ==
    \E s \in CSubs :
        /\ Len(cReceived[s]) >= 2
        /\ cReceived[s][1].snap # cReceived[s][2].snap

OneMore(s, snap) ==
    /\ Len(cReceived'[s]) = Len(cReceived[s]) + 1
    /\ SubSeq(cReceived'[s], 1, Len(cReceived[s])) = cReceived[s]
    /\ cReceived'[s][Len(cReceived'[s])].snap = snap

\* C18: on every emission of a constituent stream, each active subscription
\* all of whose constituents have emitted by then is handed exactly one more
\* snapshot, appended after those it holds and showing the emitted value; any
\* other subscription is handed nothing.  Emissions in the same turn are
\* successive steps and are treated alike.
ClaimC18 ==
    [][emits' = emits + 1 =>
        \A s \in CSubs :
            IF cPhase[s] = "active" /\ lastKey' \in Qualifying /\ AllEmitted(hLast'[s])
            THEN OneMore(s, Due(hLast'[s]))
            ELSE cReceived'[s] = cReceived[s]]_vars

\* Two emissions of different constituents, each answered by its own snapshot.
WitnessC18 ==
    \E s \in CSubs :
        /\ component = [f \in Fields |-> IF f = "other" THEN "plain" ELSE "observe"]
        /\ Len(cReceived[s]) = 3
        /\ cReceived[s][1].snap["obs1$"] # cReceived[s][2].snap["obs1$"]
        /\ cReceived[s][2].snap["obs2$"] # cReceived[s][3].snap["obs2$"]

\* C20: no subscription stays active once a constituent stream has errored;
\* a subscription that ended with an error was handed the reason a
\* constituent errored with, and is handed no snapshot afterwards, whatever
\* the other constituents emit.
ClaimC20 ==
    /\ [](\A s \in CSubs :
            /\ cPhase[s] = "active" => \A f \in Qualifying : failed[f] = NoError
            /\ cPhase[s] = "errored" <=> cError[s] # NoError
            /\ cError[s] # NoError => \E f \in Qualifying : failed[f] = cError[s])
    /\ [][\A s \in CSubs :
            cPhase[s] = "errored" => (cReceived'[s] = cReceived[s] /\ cPhase'[s] = "errored")]_vars

\* A subscription that had been handed a snapshot ended with a constituent's
\* error, and another constituent emitted afterwards.
WitnessC20 ==
    \E s \in CSubs :
        /\ cPhase[s] = "errored"
        /\ cError[s] = "boom"
        /\ Len(cReceived[s]) = 1
        /\ emits = 2
        /\ lastKey # "" /\ component[lastKey] = "observe"
        /\ hLast[s][lastKey] # source[lastKey]

\* C17: the objects handed to a subscription are pairwise distinct, each was
\* created by the emission that handed it over, and each still holds what it
\* held when it was handed over.
ClaimC17 ==
    \A s \in CSubs :
        /\ \A i \in DOMAIN cReceived[s] :
              /\ cReceived[s][i].ref \in DOMAIN heap
              /\ heap[cReceived[s][i].ref] = cReceived[s][i].snap
        /\ \A i, j \in DOMAIN cReceived[s] :
              i # j => cReceived[s][i].ref # cReceived[s][j].ref

\* Two snapshots of different contents handed over one after the other.
WitnessC17 ==
    \E s \in CSubs :
        /\ Len(cReceived[s]) >= 2
        /\ cReceived[s][1].ref # cReceived[s][2].ref
        /\ heap[cReceived[s][1].ref] # heap[cReceived[s][2].ref]

\* C27: res.value and the component's $observables are unset for as long as
\* no subscriber of the combined stream has been handed a snapshot, and set
\* from the first snapshot on; with no subscription made they stay unset
\* whatever the component's streams emit.
ClaimC27 ==
    /\ (\A s \in CSubs : cPhase[s] = "idle") => (cValue = <<>> /\ cDollar = <<>>)
    /\ (\A s \in CSubs : cReceived[s] = <<>>) <=> (cValue = <<>> /\ cDollar = <<>>)
    /\ cValue = <<>> <=> cDollar = <<>>

\* Nobody has subscribed and the qualifying streams have emitted.
WitnessC27 ==
    /\ \A s \in CSubs : cPhase[s] = "idle"
    /\ emits = MaxEmits
    /\ lastKey \in Qualifying
    /\ cValue = <<>>

\* ------------------------------------------------------------ registration
\* The registration state the initializers work on.
AState == [flag |-> coreHasBeenAgmented, calls |-> augmentCalls, thrown |-> FALSE]

\* One call of the state library's augment with the four extension points;
\* threw tells whether it throws, which ends the caller there.
Augment(a, threw) == [a EXCEPT !.calls = @ + 1, !.thrown = threw]

AugementCoreFlagLast(a, threw) ==
    IF a.flag
    THEN a
    ELSE LET a1 == Augment(a, threw)
         IN IF a1.thrown THEN a1 ELSE [a1 EXCEPT !.flag = TRUE]

\* Module variant: the guarded registration; the flag is set, then augment
\* is called.
AugementCore(a, threw) ==
    IF a.flag
    THEN a
    ELSE Augment([a EXCEPT !.flag = TRUE], threw)

\* Unnamed variant: the exported registration, which keeps no flag.
AugmentCore(a, threw) == Augment(a, threw)

APut(a) ==
    /\ coreHasBeenAgmented' = a.flag
    /\ augmentCalls' = a.calls

\* createApplicationStore / createComponentStore of the module variant: register,
\* then create the store. threw tells whether augment threw, in which
\* case the store is not created.
CreateStore(op, threw) ==
    /\ variant = "module"
    /\ Len(inits) < MaxInits
    /\ LET a == AugementCore(AState, threw)
       IN /\ APut(a)
          /\ inits' = Append(inits, [op |-> op, threw |-> a.thrown])
    /\ UNCHANGED <<variant, store, futVars, obsVars, cmbVars, synVars, fixVars, recVars, asyVars, devtoolsListeners>>

CreateApplicationStore(threw) == CreateStore("createApplicationStore", threw)

CreateComponentStore(threw) == CreateStore("createComponentStore", threw)

\* The constructor of OlikNgModule in the unnamed variant.
ConstructModule(threw) ==
    /\ variant = "unnamed"
    /\ Len(inits) < MaxInits
    /\ devtoolsListeners' = devtoolsListeners + 1
    /\ LET a == AugmentCore(AState, threw)
       IN /\ APut(a)
          /\ inits' = Append(inits, [op |-> "OlikNgModule", threw |-> a.thrown])
    /\ UNCHANGED <<variant, store, futVars, obsVars, cmbVars, synVars, fixVars, recVars, asyVars>>

\* The process before anything has been initialized.
InitAugment ==
    /\ variant \in Variants
    /\ store = InitialState
    /\ IdleFuture
    /\ IdleObserve
    /\ IdleCombine
    /\ IdleAsync
    /\ IdleRecombine
    /\ IdleSync
    /\ IdleFixed
    /\ coreHasBeenAgmented = FALSE
    /\ augmentCalls = 0
    /\ devtoolsListeners = 0
    /\ inits = <<>>

NextAugment ==
    \/ \E threw \in BOOLEAN : CreateApplicationStore(threw)
    \/ \E threw \in BOOLEAN : CreateComponentStore(threw)
    \/ \E threw \in BOOLEAN : ConstructModule(threw)

SpecAugment == InitAugment /\ [][NextAugment]_vars

\* C13: within one process augment is called at most once, however many stores
\* are created or modules constructed, and the registration flag, once true,
\* is never reset to false.
ClaimC13 ==
    /\ [](augmentCalls <= 1)
    /\ [][coreHasBeenAgmented => coreHasBeenAgmented']_vars

\* C28: in the module variant, when the augment call of the first store
\* creation throws, the flag is true all the same, and the store creations
\* that follow do not call augment: it has been called once.
ClaimC28 ==
    (variant = "module" /\ inits # <<>> /\ inits[1].threw) =>
        /\ coreHasBeenAgmented
        /\ augmentCalls = 1
        /\ \A i \in DOMAIN inits : i > 1 => ~inits[i].threw

\* The first creation's augment call threw; a store of each kind was
\* created afterwards.
WitnessC28 ==
    /\ variant = "module"
    /\ Len(inits) >= 3
    /\ inits[1].threw
    /\ \E i, j \in 2..Len(inits) :
          /\ inits[i].op = "createApplicationStore"
          /\ inits[j].op = "createComponentStore"

\* ------------------------------------------------------------ async bridge
\* toPromise's next handler: the value held for resolution is the latest one.
TpNextKeepsFirst(held, v) == IF held = Undefined THEN v ELSE held

TpNext(held, v) == v

\* async(fnReturningFutureAugmentation): a value with a then member is returned
\* as it is; a stream is converted by toPromise, which subscribes to it.
Async(kind) ==
    /\ produced = "none"
    /\ produced' = kind
    /\ IF kind = "thenable"
       THEN /\ returned' = "produced"
            /\ sPhase' = "idle"
       ELSE /\ returned' = "toPromise"
            /\ sPhase' = "active"
    /\ promise' = [status |-> "pending", value |-> Undefined]
    /\ UNCHANGED <<variant, store, futVars, obsVars, cmbVars, synVars, fixVars, recVars, augVars, sEmitted, tpValue>>

\* The produced stream emits v to toPromise's subscriber.
StreamNext(v) ==
    /\ sPhase = "active"
    /\ Len(sEmitted) < MaxStreamEmits
    /\ sEmitted' = Append(sEmitted, v)
    /\ tpValue' = TpNext(tpValue, v)
    /\ UNCHANGED <<variant, store, futVars, obsVars, cmbVars, synVars, fixVars, recVars, augVars, produced, returned,
                   promise, sPhase>>

\* The produced stream completes: toPromise resolves with the value it holds.
StreamComplete ==
    /\ sPhase = "active"
    /\ sPhase' = "completed"
    /\ promise' = [status |-> "resolved", value |-> tpValue]
    /\ UNCHANGED <<variant, store, futVars, obsVars, cmbVars, synVars, fixVars, recVars, augVars, produced, returned,
                   sEmitted, tpValue>>

\* The produced stream errors: toPromise rejects with the reason.
StreamError(reason) ==
    /\ sPhase = "active"
    /\ sPhase' = "errored"
    /\ promise' = [status |-> "rejected", value |-> reason]
    /\ UNCHANGED <<variant, store, futVars, obsVars, cmbVars, synVars, fixVars, recVars, augVars, produced, returned,
                   sEmitted, tpValue>>

\* The produced promise-like value settles by itself.
ThenableSettle(status, v) ==
    /\ produced = "thenable"
    /\ promise.status = "pending"
    /\ promise' = [status |-> status, value |-> v]
    /\ UNCHANGED <<variant, store, futVars, obsVars, cmbVars, synVars, fixVars, recVars, augVars, produced, returned,
                   sPhase, sEmitted, tpValue>>

InitAsync ==
    /\ variant \in Variants
    /\ store = InitialState
    /\ IdleFuture
    /\ IdleObserve
    /\ IdleCombine
    /\ IdleAugment
    /\ IdleAsync
    /\ IdleRecombine
    /\ IdleSync
    /\ IdleFixed

NextAsync ==
    \/ \E kind \in {"thenable", "stream"} : Async(kind)
    \/ \E v \in Values : StreamNext(v)
    \/ StreamComplete
    \/ \E reason \in Reasons : StreamError(reason)
    \/ \E v \in Values : ThenableSettle("resolved", v)
    \/ \E reason \in Reasons : ThenableSettle("rejected", reason)

SpecAsync == InitAsync /\ [][NextAsync]_vars

\* C12 as stated: once a produced stream has emitted, the promise is resolved
\* with its first emission; a produced promise-like value is returned unchanged.
ClaimC12 ==
    /\ (produced = "stream" /\ sEmitted # <<>>) =>
           promise = [status |-> "resolved", value |-> sEmitted[1]]
    /\ produced = "thenable" => returned = "produced"

\* C12 amended: for a produced stream the promise is pending until the stream
\* terminates; it resolves when the stream completes, with the last emission
\* (undefined when there was none), and rejects when the stream errors; a
\* produced promise-like value is returned unchanged.
ClaimC12Amended ==
    /\ produced = "stream" =>
        /\ returned = "toPromise"
        /\ sPhase = "active" => promise.status = "pending"
        /\ sPhase = "completed" =>
               promise = [status |-> "resolved",
                          value |-> IF sEmitted = <<>> THEN Undefined
                                    ELSE sEmitted[Len(sEmitted)]]
        /\ sPhase = "errored" => promise.status = "rejected"
    /\ produced = "thenable" => returned = "produced"

WitnessC12 ==
    /\ produced = "stream"
    /\ Len(sEmitted) >= 2
    /\ sEmitted[1] # sEmitted[Len(sEmitted)]
    /\ promise.status = "resolved"

\* ------------------------------------------------ combining a component twice
\* The component has the field obs1$, holding the observe() stream of the
\* store's property, and after it the field observables$, which is unset until
\* the component assigns a combined stream to it.
RKeysOf(field) ==
    IF field = 0
    THEN <<"obs1$">>
    ELSE <<"obs1$", "observables$">>

\* The call whose stream an execution runs.
StreamOf(e) == IF e = "ext2" THEN 2 ELSE 1

KeySet(k) == {rKeys[k][i] : i \in DOMAIN rKeys[k]}

RState == [exec |-> rExec, order |-> rOrder, received |-> rReceived,
           dollar |-> rDollar, value |-> rValue]

\* The object map's function builds for execution e.
RResult(g, e) ==
    [key \in KeySet(StreamOf(e)) |->
        IF key = "obs1$" THEN g.exec[e].obs ELSE g.exec[e].inner]

\* map's function publishes the object on the component and on the stream.
RPublish(g, e) ==
    LET result == RResult(g, e)
    IN [g EXCEPT !.dollar = result, !.value[StreamOf(e)] = result]

\* combineLatest of a subscriber's execution e receives val for key.
RNextExt(g, e, key, val) ==
    IF g.exec[e].phase # "active"
    THEN g
    ELSE LET g1 == [g EXCEPT !.exec[e].has = @ \cup {key},
                             !.exec[e].obs = IF key = "obs1$" THEN val ELSE @,
                             !.exec[e].inner = IF key = "observables$" THEN val ELSE @]
         IN IF g1.exec[e].has = KeySet(StreamOf(e))
            THEN [RPublish(g1, e) EXCEPT
                     !.received[StreamOf(e)] = Append(@, RResult(g1, e))]
            ELSE g1

\* combineLatest of the execution the second stream runs of the first
\* receives val for obs1$; its snapshot goes to the second stream's
\* combineLatest as the value of observables$.
RNextInner(g, val) ==
    IF g.exec["inner"].phase # "active"
    THEN g
    ELSE LET g1 == [g EXCEPT !.exec["inner"].has = {"obs1$"},
                             !.exec["inner"].obs = val]
         IN RNextExt(RPublish(g1, "inner"), "ext2", "observables$",
                     RResult(g1, "inner"))

\* Execution e subscribes to obs1$: the current value, then a change listener.
RObserve(g, e) ==
    LET g1 == IF e = "inner"
              THEN RNextInner(g, store["property"])
              ELSE RNextExt(g, e, "obs1$", store["property"])
    IN [g1 EXCEPT !.order = Append(@, e)]

\* Subscribing to the stream of a call: combineLatest subscribes to the
\* constituents in key order.
RSubscribeTo(g, e) ==
    LET g0 == [g EXCEPT !.exec[e] = [IdleExec EXCEPT !.phase = "active"]]
        g1 == RObserve(g0, e)
    IN IF "observables$" \in KeySet(StreamOf(e))
       THEN RObserve([g1 EXCEPT !.exec["inner"] =
                                    [IdleExec EXCEPT !.phase = "active"]], "inner")
       ELSE g1

\* The store notifies the change listeners in registration order.
RECURSIVE RDeliver(_, _, _)
RDeliver(g, order, v) ==
    IF order = <<>>
    THEN g
    ELSE LET e == Head(order)
             g1 == IF e = "inner"
                   THEN RNextInner(g, v)
                   ELSE RNextExt(g, e, "obs1$", v)
         IN RDeliver(g1, Tail(order), v)

RPut(g) ==
    /\ rExec' = g.exec
    /\ rOrder' = g.order
    /\ rReceived' = g.received
    /\ rDollar' = g.dollar
    /\ rValue' = g.value

\* combineComponentObservables(component); assign tells whether the component
\* assigns the result to its field observables$.
RCombine(assign) ==
    /\ rCalled < 2
    /\ rCalled' = rCalled + 1
    /\ rKeys' = [rKeys EXCEPT ![rCalled + 1] = RKeysOf(rField)]
    /\ rField' = IF assign THEN rCalled + 1 ELSE rField
    /\ UNCHANGED <<variant, store, futVars, obsVars, cmbVars, synVars, fixVars, augVars, asyVars,
                   rExec, rOrder, rReceived, rDollar, rValue, rEmits>>

RExt(k) == IF k = 1 THEN "ext1" ELSE "ext2"

RSubscribe(k) ==
    /\ k <= rCalled
    /\ rExec[RExt(k)].phase = "idle"
    /\ RPut(RSubscribeTo(RState, RExt(k)))
    /\ UNCHANGED <<variant, store, futVars, obsVars, cmbVars, synVars, fixVars, augVars, asyVars,
                   rField, rCalled, rKeys, rEmits>>

\* Unsubscribing releases the execution's constituent subscriptions.
RUnsubscribe(k) ==
    /\ rExec[RExt(k)].phase = "active"
    /\ LET gone == IF k = 2 THEN {"ext2", "inner"} ELSE {"ext1"}
       IN /\ rExec' = [e \in Execs |->
                          IF e \in gone /\ rExec[e].phase = "active"
                          THEN [rExec[e] EXCEPT !.phase = "closed"]
                          ELSE rExec[e]]
          /\ rOrder' = SelectSeq(rOrder, LAMBDA e : e \notin gone)
    /\ UNCHANGED <<variant, store, futVars, obsVars, cmbVars, synVars, fixVars, augVars, asyVars,
                   rField, rCalled, rKeys, rReceived, rDollar, rValue, rEmits>>

\* The store's property is replaced by v.
RMutate(v) ==
    /\ rEmits < MaxRecombineEmits
    /\ v # store["property"]
    /\ store' = [store EXCEPT !["property"] = v]
    /\ rEmits' = rEmits + 1
    /\ RPut(RDeliver(RState, rOrder, v))
    /\ UNCHANGED <<variant, futVars, obsVars, cmbVars, synVars, fixVars, augVars, asyVars,
                   rField, rCalled, rKeys>>

InitRecombine ==
    /\ variant = "module"
    /\ store = InitialState
    /\ IdleFuture
    /\ IdleObserve
    /\ IdleCombine
    /\ IdleExt

NextRecombine ==
    \/ \E assign \in BOOLEAN : RCombine(assign)
    \/ \E k \in Calls : RSubscribe(k)
    \/ \E k \in Calls : RUnsubscribe(k)
    \/ \E v \in Values : RMutate(v)

SpecRecombine == InitRecombine /\ [][NextRecombine]_vars

\* C19: a second call of the combiner on the same component gives a stream
\* independent of the first: it has the same constituent streams as the first
\* call, its snapshots have the keys of the first call's snapshots, and its
\* subscriber gets one snapshot on subscribing and one per store change after.
ClaimC19 ==
    rCalled = 2 =>
        /\ rKeys[2] = rKeys[1]
        /\ \A i \in DOMAIN rReceived[2] : DOMAIN rReceived[2][i] = KeySet(1)
        /\ Len(rReceived[2]) <= 1 + rEmits

\* C21: on a component with no qualifying field every subscription to the
\* combined stream is treated alike: each is handed nothing at all, or each is
\* handed one empty snapshot inside subscribe; none is handed more than one.
ClaimC21 ==
    Qualifying = {} =>
        /\ \A s \in ESubs : Len(cReceived[s]) <= 1
        /\ \A s \in ESubs : cReceived[s] # <<>> => DOMAIN cReceived[s][1].snap = {}
        /\ \A s, r \in ESubs :
              (cPhase[s] # "idle" /\ cPhase[r] # "idle") =>
                  Len(cReceived[s]) = Len(cReceived[r])

\* Two subscriptions made, an EventEmitter of the component having emitted
\* before the second and after it.
WitnessC21 ==
    /\ Qualifying = {}
    /\ \A s \in ESubs : cPhase[s] = "completed"
    /\ emits = MaxEmits
    /\ \E f \in Fields : component[f] = "emitter"

\* ------------------------------------------------ synchronizeObservables
\* What the helper leaves alone of the combiner's state.
cmbRest == <<keysOfObservableMembers, cValue, cDollar, cPhase, cOrder, cLatest,
             cReceived, hLast, cExpected, lastKey, failed, cError, heap>>

\* The state the helper's callbacks read and write.
SyncState == [heap |-> syncHeap, calls |-> detectChangesCalls, log |-> syncLog,
              initialized |-> initialized]

SPut(y) ==
    /\ syncHeap' = y.heap
    /\ detectChangesCalls' = y.calls
    /\ syncLog' = y.log

\* An object with the member key set to r.
With(obj, key, r) ==
    [k \in DOMAIN obj \cup {key} |-> IF k = key THEN r ELSE obj[k]]

\* obj[key], NoValue standing for an absent member.
Peek(obj, key) == IF key \in DOMAIN obj THEN obj[key] ELSE NoValue

ObjectAssignCopy(y, key, r) ==
    [y EXCEPT !.heap = Append(@, With(y.heap[Len(y.heap)], key, r))]

\* Object.assign(result, { [key]: r }): result itself gets the member.
ObjectAssign(y, key, r) == [y EXCEPT !.heap[1] = With(@, key, r)]

\* changeDetector.detectChanges()
DetectChanges(y) == [y EXCEPT !.calls = @ + 1]

SyncNextAlwaysDetects(y, key, r) ==
    LET y1 == ObjectAssign(y, key, r)
        y2 == DetectChanges(y1)
    IN [y2 EXCEPT !.log = Append(@,
            [key |-> key, value |-> r, init |-> y.initialized, held |-> TRUE,
             calls |-> y2.calls - y.calls, seen |-> Peek(y1.heap[1], key)])]

\* The callback given to subscribe for the stream in field key, on the
\* value r; the log entry records whether the timer had run, how many times
\* detectChanges was called and what result[key] read when it was.
SyncNext(y, key, r) ==
    LET y1 == ObjectAssign(y, key, r)
        y2 == IF y1.initialized THEN DetectChanges(y1) ELSE y1
    IN [y2 EXCEPT !.log = Append(@,
            [key |-> key, value |-> r, init |-> y.initialized, held |-> TRUE,
             calls |-> y2.calls - y.calls,
             seen |-> IF y1.initialized THEN Peek(y1.heap[1], key) ELSE NoValue])]

\* The helper subscribes to the qualifying streams in key order; a stream
\* observe() returned emits its current value inside subscribe.
RECURSIVE SyncSubscribeAll(_, _)
SyncSubscribeAll(y, keys) ==
    IF keys = <<>>
    THEN y
    ELSE LET key == Head(keys)
             y1 == IF component[key] = "observe"
                   THEN SyncNext(y, key, source[key])
                   ELSE y
         IN SyncSubscribeAll(y1, Tail(keys))

\* synchronizeObservables(component, changeDetector)
SynchronizeObservables ==
    /\ ~syncCalled
    /\ syncCalled' = TRUE
    /\ initialized' = FALSE
    /\ timerPending' = TRUE
    /\ LET keys == KeysOfObservableMembers(component)
           y0 == [SyncState EXCEPT !.heap = << <<>> >>, !.initialized = FALSE]
           y1 == SyncSubscribeAll(y0, keys)
           y2 == [y1 EXCEPT !.heap[1] = With(@, "unsubscribe", "function")]
       IN /\ SPut(y2)
          /\ subscriptions' = [i \in DOMAIN keys |-> [key |-> keys[i], closed |-> FALSE]]
    /\ syncReturned' = 1
    /\ UNCHANGED <<variant, store, futVars, obsVars, augVars, asyVars, recVars, fixVars,
                   component, source, emits, cmbRest, syncUnsubscribed>>

\* The callback given to setTimeout runs.
SyncTimer ==
    /\ timerPending
    /\ timerPending' = FALSE
    /\ initialized' = TRUE
    /\ UNCHANGED <<variant, store, futVars, obsVars, augVars, asyVars, recVars, fixVars,
                   component, source, emits, cmbRest, syncCalled, syncHeap,
                   syncReturned, subscriptions, detectChangesCalls,
                   syncUnsubscribed, syncLog>>

\* The helper holds an open subscription to the stream in field key.
SyncHolds(subs, key) == \E i \in DOMAIN subs : subs[i].key = key /\ ~subs[i].closed

\* The stream in field key emits v after the call: the helper's callback
\* runs if its subscription to that stream is open.
SyncEmit(key, v) ==
    /\ syncCalled
    /\ emits < MaxSyncEmits
    /\ component[key] # "plain"
    /\ component[key] = "observe" => v # source[key]
    /\ emits' = emits + 1
    /\ source' = IF component[key] = "observe" THEN [source EXCEPT ![key] = v] ELSE source
    /\ IF SyncHolds(subscriptions, key)
       THEN SPut(SyncNext(SyncState, key, v))
       ELSE /\ syncLog' = Append(syncLog,
                    [key |-> key, value |-> v, init |-> initialized, held |-> FALSE,
                     calls |-> 0, seen |-> NoValue])
            /\ UNCHANGED <<syncHeap, detectChangesCalls>>
    /\ UNCHANGED <<variant, store, futVars, obsVars, augVars, asyVars, recVars, fixVars,
                   component, cmbRest, syncCalled, initialized, timerPending,
                   syncReturned, subscriptions, syncUnsubscribed>>

UnsubscribeFirstOnly(subs) ==
    [i \in DOMAIN subs |-> IF i = 1 THEN [subs[i] EXCEPT !.closed = TRUE] ELSE subs[i]]

\* subscriptions.forEach(s => s.unsubscribe())
UnsubscribeAll(subs) == [i \in DOMAIN subs |-> [subs[i] EXCEPT !.closed = TRUE]]

\* unsubscribe() of the returned object
SyncUnsubscribe ==
    /\ syncCalled
    /\ ~syncUnsubscribed
    /\ syncUnsubscribed' = TRUE
    /\ subscriptions' = UnsubscribeAll(subscriptions)
    /\ UNCHANGED <<variant, store, futVars, obsVars, augVars, asyVars, recVars, fixVars,
                   component, source, emits, cmbRest, syncCalled, initialized,
                   timerPending, syncHeap, syncReturned, detectChangesCalls, syncLog>>

\* A component has been constructed, its fields holding any mix of plain
\* values, EventEmitters, Subjects and observe() streams.
InitSync ==
    /\ variant = "unnamed"
    /\ store = InitialState
    /\ IdleFuture
    /\ IdleObserve
    /\ IdleAugment
    /\ IdleAsync
    /\ IdleRecombine
    /\ IdleSync
    /\ IdleFixed
    /\ component \in [Fields -> Kinds]
    /\ source = [f \in Fields |-> IF f = "obs2$" THEN "b" ELSE "a"]
    /\ keysOfObservableMembers = <<>>
    /\ cValue = <<>>
    /\ cDollar = <<>>
    /\ cPhase = [s \in CSubs |-> "idle"]
    /\ cOrder = <<>>
    /\ cLatest = [s \in CSubs |-> <<>>]
    /\ cReceived = [s \in CSubs |-> <<>>]
    /\ hLast = [s \in CSubs |-> [f \in Fields |-> NoValue]]
    /\ cExpected = [s \in CSubs |-> <<>>]
    /\ emits = 0
    /\ lastKey = ""
    /\ failed = [f \in Fields |-> NoError]
    /\ cError = [s \in CSubs |-> NoError]
    /\ heap = <<>>

NextSync ==
    \/ SynchronizeObservables
    \/ SyncTimer
    \/ \E key \in Fields, v \in {"a", "b"} : SyncEmit(key, v)
    \/ SyncUnsubscribe

SpecSync == InitSync /\ [][NextSync]_vars

\* --------------------------------------- claims on synchronizeObservables
\* History: the emissions of the stream in field key since the call.
LogOf(key) == SelectSeq(syncLog, LAMBDA e : e.key = key)

\* C22: until unsubscribe() is called, the returned object holds, for every
\* qualifying field whose stream has emitted, the last value it emitted, and
\* has no member for a qualifying field whose stream has not emitted; it is
\* the object the callbacks write to, the only one the helper created.
ClaimC22 ==
    (syncCalled /\ ~syncUnsubscribed) =>
        /\ syncReturned = 1
        /\ Len(syncHeap) = 1
        /\ \A key \in Qualifying :
              IF LogOf(key) # <<>>
              THEN Peek(syncHeap[syncReturned], key) = LogOf(key)[Len(LogOf(key))].value
              ELSE key \notin DOMAIN syncHeap[syncReturned]

\* One stream has emitted twice, the second value differing from the first,
\* and a Subject of the component has not emitted.
WitnessC22 ==
    /\ syncCalled
    /\ ~syncUnsubscribed
    /\ \E key \in Qualifying :
          /\ Len(LogOf(key)) >= 2
          /\ LogOf(key)[1].value # LogOf(key)[Len(LogOf(key))].value
    /\ \E key \in Qualifying : LogOf(key) = <<>>

\* C23: once unsubscribe() has been called every subscription of the helper
\* is closed, and no step from then on changes the result object or calls
\* detectChanges.
ClaimC23 ==
    /\ [](syncUnsubscribed => \A i \in DOMAIN subscriptions : subscriptions[i].closed)
    /\ [][syncUnsubscribed =>
            (syncHeap' = syncHeap /\ detectChangesCalls' = detectChangesCalls)]_vars

\* A qualifying stream has emitted after unsubscribe() and after the timer
\* callback, the helper having held two subscriptions.
WitnessC23 ==
    /\ syncUnsubscribed
    /\ Len(subscriptions) >= 2
    /\ \E i \in DOMAIN syncLog :
          /\ syncLog[i].key \in Qualifying
          /\ syncLog[i].init
          /\ ~syncLog[i].held

\* C24 as stated: detectChanges is not called for an emission of a qualifying
\* stream made before the timer callback has run, and is called once, the
\* result updated, for each made after it has run.
ClaimC24 ==
    \A i \in DOMAIN syncLog :
        syncLog[i].key \in Qualifying =>
            IF syncLog[i].init
            THEN syncLog[i].calls = 1 /\ syncLog[i].seen = syncLog[i].value
            ELSE syncLog[i].calls = 0

\* C24 amended: detectChanges is not called for an emission of a qualifying
\* stream made before the timer callback has run, and is called once, the
\* result updated, for each made after it has run while the helper's
\* subscription to that stream is open; it is called on no other occasion.
ClaimC24Amended ==
    /\ \A i \in DOMAIN syncLog :
          syncLog[i].key \in Qualifying =>
              /\ ~syncLog[i].init => syncLog[i].calls = 0
              /\ (syncLog[i].init /\ syncLog[i].held) =>
                    (syncLog[i].calls = 1 /\ syncLog[i].seen = syncLog[i].value)
    /\ detectChangesCalls =
          Cardinality({i \in DOMAIN syncLog : syncLog[i].init /\ syncLog[i].held})

\* A value delivered inside the call, one delivered after the call and before
\* the timer callback, and one delivered after it.
WitnessC24 ==
    /\ component = [f \in Fields |-> IF f = "obs1$" THEN "observe"
                                     ELSE IF f = "obs2$" THEN "subject" ELSE "plain"]
    /\ Len(syncLog) = 3
    /\ syncLog[1].key = "obs1$" /\ ~syncLog[1].init /\ syncLog[1].held
    /\ syncLog[2].key = "obs2$" /\ ~syncLog[2].init /\ syncLog[2].held
    /\ syncLog[3].init /\ syncLog[3].held /\ syncLog[3].calls = 1

\* ------------------------------ fields assigned after the combiner's call
\* Stream objects have an identity: the stream a field holds at construction
\* has the field's position, a stream assigned later the next free number.
InitialStream(f) == CHOOSE i \in DOMAIN FieldOrder : FieldOrder[i] = f

\* keysOfObservableMembers.map(key => component[key]), evaluated in the call.
ConstituentsOf(keys, streams) == [i \in DOMAIN keys |-> streams[keys[i]]]

SubscribedStreamsDeferred(captured, keys, streams) == ConstituentsOf(keys, streams)

\* combineLatest subscribes to the streams of the array it was given.
SubscribedStreams(captured, keys, streams) == captured

\* observables$.subscribe(...) on a component whose streams are Subjects.
SubscribeCombined(s) ==
    /\ cPhase[s] = "idle"
    /\ LET g == [CState EXCEPT
                   !.phase[s] = IF keysOfObservableMembers = <<>>
                                THEN "completed" ELSE "active",
                   !.latest[s] = [i \in DOMAIN keysOfObservableMembers |-> NoValue]]
       IN /\ CPut(g)
          /\ cOrder' = IF g.phase[s] = "active" THEN Append(cOrder, s) ELSE cOrder
    /\ listening' = [listening EXCEPT ![s] =
          SubscribedStreams(constituents, keysOfObservableMembers, fieldStream)]
    /\ UNCHANGED <<variant, store, futVars, obsVars, augVars, asyVars, recVars, synVars,
                   component, source, keysOfObservableMembers, hLast, cExpected,
                   emits, lastKey, failed, fieldStream, constituents, changes,
                   atCall, lastStream>>

\* The stream object id emits v to the combineLatest subscriptions listening
\* to it, in subscription order.
RECURSIVE EmitStreamTo(_, _, _, _)
EmitStreamTo(g, order, id, v) ==
    IF order = <<>> THEN g
    ELSE LET s == Head(order)
             g1 == IF \E idx \in DOMAIN listening[s] : listening[s][idx] = id
                   THEN CombineLatestNext(g, s,
                            CHOOSE idx \in DOMAIN listening[s] : listening[s][idx] = id, v)
                   ELSE g
         IN EmitStreamTo(g1, Tail(order), id, v)

\* The stream objects there are: those of construction and those now in a field.
StreamExists(id) ==
    \/ \E f \in Fields : atCall.stream[f] = id
    \/ \E f \in Fields : fieldStream[f] = id

\* next(v) on the Subject or EventEmitter with identity id.
EmitStream(id, v) ==
    /\ emits < MaxEmits
    /\ id # 0
    /\ StreamExists(id)
    /\ emits' = emits + 1
    /\ lastStream' = [id |-> id, value |-> v]
    /\ CPut(EmitStreamTo(CState, cOrder, id, v))
    /\ UNCHANGED <<variant, store, futVars, obsVars, augVars, asyVars, recVars, synVars,
                   component, source, keysOfObservableMembers, cOrder, hLast,
                   cExpected, lastKey, failed, fieldStream, constituents, listening,
                   changes, atCall>>

\* component[key] = ... after the call: a plain value, or a new Subject or
\* EventEmitter.
AssignField(key, kind) ==
    /\ changes < MaxFieldChanges
    /\ ~(kind = "plain" /\ component[key] = "plain")
    /\ changes' = changes + 1
    /\ component' = [component EXCEPT ![key] = kind]
    /\ fieldStream' = [fieldStream EXCEPT ![key] =
          IF kind = "plain" THEN 0 ELSE Len(FieldOrder) + changes + 1]
    /\ UNCHANGED <<variant, store, futVars, obsVars, augVars, asyVars, recVars, synVars,
                   source, emits, cmbRest, constituents, listening, atCall, lastStream>>

\* A component holding plain values and Subjects has been constructed and
\* combineComponentObservables(component) has been called on it.
InitFixed ==
    /\ variant = "module"
    /\ store = InitialState
    /\ IdleFuture
    /\ IdleObserve
    /\ IdleAugment
    /\ IdleAsync
    /\ IdleRecombine
    /\ IdleSync
    /\ component \in [Fields -> {"plain", "subject"}]
    /\ source = [f \in Fields |-> "a"]
    /\ keysOfObservableMembers = KeysOfObservableMembers(component)
    /\ fieldStream = [f \in Fields |->
          IF component[f] = "plain" THEN 0 ELSE InitialStream(f)]
    /\ constituents = ConstituentsOf(keysOfObservableMembers, fieldStream)
    /\ atCall = [component |-> component, stream |-> fieldStream]
    /\ listening = [s \in CSubs |-> <<>>]
    /\ changes = 0
    /\ lastStream = [id |-> 0, value |-> NoValue]
    /\ cValue = <<>>
    /\ cDollar = <<>>
    /\ cPhase = [s \in CSubs |-> "idle"]
    /\ cOrder = <<>>
    /\ cLatest = [s \in CSubs |-> <<>>]
    /\ cReceived = [s \in CSubs |-> <<>>]
    /\ hLast = [s \in CSubs |-> [f \in Fields |-> NoValue]]
    /\ cExpected = [s \in CSubs |-> <<>>]
    /\ emits = 0
    /\ lastKey = ""
    /\ failed = [f \in Fields |-> NoError]
    /\ cError = [s \in CSubs |-> NoError]
    /\ heap = <<>>

NextFixed ==
    \/ \E s \in CSubs : SubscribeCombined(s)
    \/ \E s \in CSubs : CUnsubscribe(s)
    \/ \E id \in 1..(Len(FieldOrder) + MaxFieldChanges), v \in {"a", "b"} : EmitStream(id, v)
    \/ \E key \in Fields, kind \in {"plain", "subject", "emitter"} : AssignField(key, kind)

SpecFixed == InitFixed /\ [][NextFixed]_vars

\* The fields that held a qualifying stream when the combiner was called.
Captured == {f \in Fields : atCall.component[f] = "subject"}

\* C26: every snapshot has as keys the fields that held a qualifying stream
\* when the combiner was called, and a snapshot is handed out only on the
\* emission of a stream one of these fields held then, carrying the value
\* emitted under that field's key: a field assigned after the call adds no
\* key and no value.
ClaimC26 ==
    /\ [](\A s \in CSubs : \A i \in DOMAIN cReceived[s] :
              DOMAIN cReceived[s][i].snap = Captured)
    /\ [][\A s \in CSubs :
            cReceived'[s] # cReceived[s] =>
                \E f \in Captured :
                    /\ lastStream'.id = atCall.stream[f]
                    /\ cReceived'[s][Len(cReceived'[s])].snap[f] = lastStream'.value]_vars

\* A captured field has been assigned another Subject; the captured stream
\* emitted and gave a snapshot, then the new Subject emitted and gave none.
WitnessC26 ==
    \E s \in CSubs, f \in Captured :
        /\ cPhase[s] = "active"
        /\ component[f] = "subject"
        /\ fieldStream[f] # atCall.stream[f]
        /\ lastStream.id = fieldStream[f]
        /\ Len(cReceived[s]) = 1
        /\ emits = 2

====
